---- MODULE Spec2Model ----
(***************************************************************************)
(* Model of the davidia browser client:                                    *)
(*   - PlotComponent (React class component fed by a WebSocket): the       *)
(*     socket lifecycle, the inbound message dispatch, the line series     *)
(*     collection and its axis domains, the add-line requests;             *)
(*   - SelectionComponent: pointer gestures, their validation and commit.  *)
(* Event handlers run to completion (one JavaScript task each), so each    *)
(* handler is one action.  React state updates requested with setState     *)
(* are queued and applied by a later step (FlushState), which may follow   *)
(* the handler immediately.                                                *)
(***************************************************************************)
EXTENDS Integers, Sequences, FiniteSets, TLC

\* ------------------------------------------------------------------------
\* Bounds of the model
\* ------------------------------------------------------------------------
MaxMsgs == 2        \* inbound messages handled in one run of the transport
MaxStoreMsgs == 3   \* inbound messages handled in one run of the plot state
MaxAdd == 2         \* clicks on the "Add line" button in one run
MaxDomSeries == 2   \* series of a collection given to the domain functions
MaxSamples == 2     \* samples of one series given to the domain functions
MaxCommits == 2     \* selections committed in one run

\* ------------------------------------------------------------------------
\* JavaScript values: a number, NaN or undefined
\* ------------------------------------------------------------------------
Num(n) == [t |-> "num", v |-> n]
NaN == [t |-> "NaN", v |-> 0]
Undefined == [t |-> "undefined", v |-> 0]

\* a[i] for a JavaScript array a and a 0-based index i
ArrayGet(a, i) == IF i + 1 <= Len(a) THEN Num(a[i + 1]) ELSE Undefined

\* ToNumber, as applied by Math.min / Math.max to each argument
ToNumber(j) == IF j.t = "num" THEN j ELSE NaN

RECURSIVE MathMin(_)
\* Math.min(...args) for a non-empty argument list: NaN if any argument is
MathMin(args) ==
  LET h == ToNumber(Head(args))
  IN IF Len(args) = 1 THEN h
     ELSE LET r == MathMin(Tail(args))
          IN IF h.t = "NaN" \/ r.t = "NaN" THEN NaN
             ELSE IF h.v <= r.v THEN h ELSE r

RECURSIVE MathMax(_)
\* Math.max(...args) for a non-empty argument list: NaN if any argument is
MathMax(args) ==
  LET h == ToNumber(Head(args))
  IN IF Len(args) = 1 THEN h
     ELSE LET r == MathMax(Tail(args))
          IN IF h.t = "NaN" \/ r.t = "NaN" THEN NaN
             ELSE IF h.v >= r.v THEN h ELSE r

\* the spread ...xs of a number array, as a list of JavaScript values
Spread(xs) == [i \in 1..Len(xs) |-> Num(xs[i])]

\* a <= b in JavaScript: false as soon as one side is not a number
Lte(a, b) == a.t = "num" /\ b.t = "num" /\ a.v <= b.v

\* ------------------------------------------------------------------------
\* Domain recomputation
\* ------------------------------------------------------------------------
\* multilineData[0].x[0] throws a TypeError when the collection is empty
DomainThrows(multilineData) == Len(multilineData) = 0

RECURSIVE XLoop(_, _, _, _)
XLoop(multilineData, i, minimum, maximum) ==
  IF i < Len(multilineData)
  THEN XLoop(multilineData, i + 1,
             MathMin(Spread(multilineData[i + 1].x) \o <<minimum>>),
             MathMax(Spread(multilineData[i + 1].x) \o <<maximum>>))
  ELSE <<minimum, maximum>>

calculateMultiXDomain(multilineData) ==
  XLoop(multilineData, 0, ArrayGet(multilineData[1].x, 0),
        ArrayGet(multilineData[1].x, 0))

RECURSIVE YLoop(_, _, _, _)
YLoop(multilineData, i, minimum, maximum) ==
  IF i < Len(multilineData)
  THEN YLoop(multilineData, i + 1,
             MathMin(Spread(multilineData[i + 1].y) \o <<minimum>>),
             MathMax(Spread(multilineData[i + 1].y) \o <<maximum>>))
  ELSE <<minimum, maximum>>

calculateMultiYDomain(multilineData) ==
  YLoop(multilineData, 0, ArrayGet(multilineData[1].y, 0),
        ArrayGet(multilineData[1].y, 0))

\* ------------------------------------------------------------------------
\* Line series and messages
\* ------------------------------------------------------------------------
LineData(k, xs, ys) == [key |-> k, x |-> xs, y |-> ys]

SeriesA == LineData("A", <<0, 1>>, <<0, 1>>)
SeriesB == LineData("B", <<0, 2>>, <<2, 0>>)
SeriesC == LineData("C", <<5>>, <<5>>)
SeriesE == LineData("E", <<>>, <<>>)
NoLine == LineData("", <<>>, <<>>)

RECURSIVE SeqsUpTo(_, _)
\* the sequences of at most n elements of S
SeqsUpTo(S, n) ==
  IF n = 0 THEN {<<>>}
  ELSE LET shorter == SeqsUpTo(S, n - 1)
       IN shorter \cup {Append(s, e) : s \in shorter, e \in S}

\* decoded inbound messages; `data` is message.data of a MultiDataMessage,
\* `line` is message.data of a LineDataMessage
MultiDataMessage(d) == [type |-> "multiline data", data |-> d, line |-> NoLine]
LineDataMessage(l) == [type |-> "new line data", data |-> <<>>, line |-> l]
ClearPlotsMessage == [type |-> "clear plots", data |-> <<>>, line |-> NoLine]
UnknownMessage == [type |-> "image data", data |-> <<>>, line |-> NoLine]

DataTypes == {"multiline data", "new line data", "clear plots"}

\* messages of the plot-state runs
StoreMsgs ==
  {MultiDataMessage(d) :
     d \in {<<>>, <<SeriesA>>, <<SeriesE>>, <<SeriesA, SeriesB>>,
            <<SeriesA, SeriesE>>, <<SeriesE, SeriesA>>, <<SeriesA, SeriesA>>}}
    \cup {LineDataMessage(SeriesC), LineDataMessage(SeriesE)}
    \cup {ClearPlotsMessage, UnknownMessage}

\* messages of the transport runs
FlowMsgs ==
  {MultiDataMessage(<<SeriesA, SeriesB>>), MultiDataMessage(<<>>),
   LineDataMessage(SeriesC), ClearPlotsMessage, UnknownMessage}

\* outbound messages
PlotId == "plot_0"
ReadyMsg == [plot_id |-> PlotId, type |-> 0, params |-> [status |-> "ready"]]
AddLineMsg(nextLineID) ==
  [plot_id |-> PlotId, type |-> 1, params |-> [line_id |-> ToString(nextLineID)]]

\* WebSocket.readyState
CONNECTING == 0
OPEN == 1
CLOSING == 2
CLOSED == 3

DefaultDomain == <<Num(0), Num(1)>>

\* ------------------------------------------------------------------------
\* State
\* ------------------------------------------------------------------------
VARIABLES
  mounted,           \* componentDidMount has installed the socket handlers
  readyState,        \* this.socket.readyState
  opened,            \* the socket has reached the open state
  openListeners,     \* line ids of the continuations waiting on "open" listeners
  lineID,            \* this.lineID
  wire,              \* messages handed to socket.send while the socket is open
  heap,              \* the array objects: heap[r] is the content of array r
  stateRef,          \* this.state.multilineData (a reference into heap)
  pending,           \* setState updates requested and not yet applied
  multilineXDomain,  \* this.multilineXDomain
  multilineYDomain,  \* this.multilineYDomain
  log,               \* inbound messages handled so far, with their outcome
  requests,          \* add-line requests made so far, with the socket state then
  rendered,          \* what the last render passed to the Plot
  selectionType,     \* props.selectionType of the SelectionComponent
  counters,          \* the counters object of the SelectionComponent
  selections,        \* regions passed to props.addSelection
  gesture,           \* the pointer gesture of the SelectionTool
  shapeColour,       \* colour of the shape drawn for the gesture in progress
  ended,             \* the last completed pointer gesture and its bounding box
  view,              \* the data-to-screen transform: axis scales and camera
  isFlipped,         \* the memoised isFlipped of the SelectionComponent
  domIn,             \* collection given to the domain functions
  domOut             \* their result

plotVars == <<mounted, readyState, opened, openListeners, lineID, wire, heap, stateRef,
              pending, multilineXDomain, multilineYDomain, log, requests,
              rendered>>
selVars == <<selectionType, counters, selections, gesture, shapeColour, ended,
             view, isFlipped>>
domVars == <<domIn, domOut>>
vars == <<plotVars, selVars, domVars>>

storeVars == <<heap, stateRef, pending, multilineXDomain, multilineYDomain>>

Last(s) == s[Len(s)]

\* this.state.multilineData
Collection == heap[stateRef]

\* the collection this.state.multilineData holds once the queued updates
\* have been applied
Requested == IF pending = <<>> THEN heap[stateRef] ELSE heap[Last(pending)]

\* ------------------------------------------------------------------------
\* PlotComponent
\* ------------------------------------------------------------------------
NoRender == [done |-> FALSE, ref |-> 0, data |-> <<>>, xDomain |-> <<>>,
             yDomain |-> <<>>]

\* render: the plot parameters built from the array this.state.multilineData
\* refers to and from the two domain fields
render(ref, arrays) ==
  [done |-> TRUE, ref |-> ref, data |-> arrays[ref],
   xDomain |-> multilineXDomain, yDomain |-> multilineYDomain]

InitPlot ==
  /\ mounted = FALSE
  /\ readyState = CONNECTING
  /\ opened = FALSE
  /\ openListeners = <<>>
  /\ lineID = 3
  /\ wire = <<>>
  /\ heap = << <<>> >>
  /\ stateRef = 1
  /\ pending = <<>>
  /\ multilineXDomain = <<Num(0), Num(0)>>
  /\ multilineYDomain = <<Num(0), Num(0)>>
  /\ log = <<>>
  /\ requests = <<>>
  /\ rendered = NoRender

componentDidMount ==
  /\ ~mounted
  /\ mounted' = TRUE
  /\ rendered' = render(stateRef, heap)
  /\ UNCHANGED <<readyState, opened, openListeners, lineID, wire, storeVars, log, requests>>
  /\ UNCHANGED <<selVars, domVars>>

\* continuations resumed last registered first
ResumeAll_reversed(ids) == [i \in 1..Len(ids) |-> AddLineMsg(ids[Len(ids) + 1 - i])]

\* the messages sent by the continuations of sendNewLineRequest, resumed in
\* the order their listeners were registered
ResumeAll(ids) == [i \in 1..Len(ids) |-> AddLineMsg(ids[i])]

\* an open handler that sends its status twice
onopen_twice == <<ReadyMsg, ReadyMsg>>

\* socket.onopen
onopen == <<ReadyMsg>>

\* the "open" event: the onopen handler, then the listeners added by
\* waitForOpenSocket, each resuming its sendNewLineRequest
SocketOpen ==
  /\ mounted
  /\ readyState = CONNECTING
  /\ readyState' = OPEN
  /\ opened' = TRUE
  /\ wire' = wire \o onopen \o ResumeAll(openListeners)
  /\ openListeners' = <<>>
  /\ UNCHANGED <<mounted, lineID, storeVars, log, requests, rendered>>
  /\ UNCHANGED <<selVars, domVars>>

\* the connection fails, the peer starts the closing handshake, or it ends
SocketClose ==
  /\ mounted
  /\ \/ readyState = CONNECTING /\ readyState' = CLOSED
     \/ readyState = OPEN /\ readyState' = CLOSING
     \/ readyState = CLOSING /\ readyState' = CLOSED
  /\ UNCHANGED <<mounted, opened, openListeners, lineID, wire, storeVars, log, requests,
                 rendered>>
  /\ UNCHANGED <<selVars, domVars>>

\* a replace that keeps the series of the current collection in front
plot_multiline_data_keeps(message) ==
  IF DomainThrows(message.data)
  THEN UNCHANGED storeVars
  ELSE LET multilineData == heap[stateRef] \o message.data
       IN /\ multilineXDomain' = calculateMultiXDomain(multilineData)
          /\ multilineYDomain' = calculateMultiYDomain(multilineData)
          /\ heap' = Append(heap, multilineData)
          /\ pending' = Append(pending, Len(heap) + 1)
          /\ UNCHANGED stateRef

plot_multiline_data(message) ==
  IF DomainThrows(message.data)
  THEN UNCHANGED storeVars
  ELSE /\ multilineXDomain' = calculateMultiXDomain(message.data)
       /\ multilineYDomain' = calculateMultiYDomain(message.data)
       /\ heap' = Append(heap, message.data)
       /\ pending' = Append(pending, Len(heap) + 1)
       /\ UNCHANGED stateRef

plot_new_line_data(message) ==
  LET multilineData == Append(heap[stateRef], message.line)
  IN /\ heap' = [heap EXCEPT ![stateRef] = multilineData]
     /\ multilineXDomain' = calculateMultiXDomain(multilineData)
     /\ multilineYDomain' = calculateMultiYDomain(multilineData)
     /\ pending' = Append(pending, stateRef)
     /\ UNCHANGED stateRef

\* a clear that resets the domains to [0, 0]
clear_all_line_data_zero ==
  /\ multilineXDomain' = <<Num(0), Num(0)>>
  /\ multilineYDomain' = <<Num(0), Num(0)>>
  /\ heap' = Append(heap, <<>>)
  /\ pending' = Append(pending, Len(heap) + 1)
  /\ UNCHANGED stateRef

clear_all_line_data ==
  /\ multilineXDomain' = <<Num(0), Num(1)>>
  /\ multilineYDomain' = <<Num(0), Num(1)>>
  /\ heap' = Append(heap, <<>>)
  /\ pending' = Append(pending, Len(heap) + 1)
  /\ UNCHANGED stateRef

\* a default branch that falls through to an acknowledgement
onmessage_default_acks(message) ==
  /\ UNCHANGED storeVars
  /\ wire' = Append(wire, ReadyMsg)

\* the default branch of the switch
onmessage_default(message) ==
  /\ UNCHANGED storeVars
  /\ UNCHANGED wire

\* socket.onmessage
onmessage(message) ==
  /\ mounted
  /\ readyState = OPEN
  /\ CASE message.type = "multiline data" ->
            /\ plot_multiline_data(message)
            /\ wire' = IF DomainThrows(message.data) THEN wire
                       ELSE Append(wire, ReadyMsg)
       [] message.type = "new line data" ->
            /\ plot_new_line_data(message)
            /\ wire' = Append(wire, ReadyMsg)
       [] message.type = "clear plots" ->
            /\ clear_all_line_data
            /\ wire' = Append(wire, ReadyMsg)
       [] OTHER -> onmessage_default(message)
  /\ log' = Append(log, [msg |-> message,
                         acks |-> Len(wire') - Len(wire),
                         threw |-> (message.type = "multiline data"
                                      /\ DomainThrows(message.data))])
  /\ UNCHANGED <<mounted, readyState, opened, openListeners, lineID, requests, rendered>>
  /\ UNCHANGED <<selVars, domVars>>

\* React applies the queued setState updates, in the order they were
\* requested, and renders the component
FlushState ==
  /\ pending # <<>>
  /\ stateRef' = Last(pending)
  /\ pending' = <<>>
  /\ rendered' = render(stateRef', heap)
  /\ UNCHANGED <<heap, multilineXDomain, multilineYDomain>>
  /\ UNCHANGED <<mounted, readyState, opened, openListeners, lineID, wire, log, requests>>
  /\ UNCHANGED <<selVars, domVars>>

\* a sendNewLineRequest that registers its listener twice
sendNewLineRequest_double(nextLineID) ==
  IF readyState # OPEN
  THEN /\ openListeners' = openListeners \o <<nextLineID, nextLineID>>
       /\ UNCHANGED wire
  ELSE /\ wire' = Append(wire, AddLineMsg(nextLineID))
       /\ UNCHANGED openListeners

\* a sendNewLineRequest that does not wait for the socket
sendNewLineRequest_nowait(nextLineID) ==
  /\ wire' = Append(wire, AddLineMsg(nextLineID))
  /\ UNCHANGED openListeners

\* waitForOpenSocket, then the rest of sendNewLineRequest: the promise is
\* resolved at once when the socket is open, by an "open" listener otherwise
sendNewLineRequest(nextLineID) ==
  IF readyState # OPEN
  THEN /\ openListeners' = Append(openListeners, nextLineID)
       /\ UNCHANGED wire
  ELSE /\ wire' = Append(wire, AddLineMsg(nextLineID))
       /\ UNCHANGED openListeners

handleAddLine ==
  /\ mounted
  /\ lineID < 3 + MaxAdd
  /\ lineID' = lineID + 1
  /\ sendNewLineRequest(lineID')
  /\ requests' = Append(requests, [id |-> lineID', at |-> readyState])
  /\ UNCHANGED <<mounted, readyState, opened, storeVars, log, rendered>>
  /\ UNCHANGED <<selVars, domVars>>

\* ------------------------------------------------------------------------
\* SelectionComponent
\* ------------------------------------------------------------------------
SelectionTypes ==
  {"line", "rectangle", "polyline", "polygon", "circle", "ellipse", "sector",
   "unknown"}

\* the kinds the parent selects in the runs
PropKinds == {"line", "rectangle", "sector"}

\* screen coordinates of the pointer in the runs
Coords == {0, 19, 45}
Points == Coords \X Coords

NoGesture == [drawing |-> FALSE, html |-> <<>>]
NoneEnded == [done |-> FALSE, width |-> 0, height |-> 0]

Min2(a, b) == IF a <= b THEN a ELSE b
Max2(a, b) == IF a >= b THEN a ELSE b

\* Box.fromPoints(...html).size for the two points of a gesture
BoxSize(html) ==
  [width |-> Max2(html[1][1], html[2][1]) - Min2(html[1][1], html[2][1]),
   height |-> Max2(html[1][2], html[2][2]) - Min2(html[1][2], html[2][2])]

\* Box.hasMinSize(minSize) of @h5web/lib: the larger side reaches minSize
hasMinSize(size, minSize) == Max2(size.width, size.height) >= minSize

\* a validate prop with the minimum size mistyped
validate_mistyped(html) == hasMinSize(BoxSize(html), 2)

\* the validate prop of the SelectionTool
validate(html) == hasMinSize(BoxSize(html), 20)

\* the colour given to pointsToShape by the render prop
RenderColour(isValid) == IF isValid THEN "blue" ELSE "orangered"

\* the transform of a fresh plot: x grows to the right, y grows upwards on a
\* screen whose y grows downwards; the camera is neither moved nor zoomed
InitView == [sx |-> 1, sy |-> -1, zoom |-> 1, pan |-> <<0, 0>>]

\* the camera positions and zoom factors of the runs
Pans == {<<0, 0>>, <<10, -10>>}
Zooms == {1, 2}

\* dataToHtml(camera, v) of the canvas context
dataToHtml(v, pt) ==
  <<v.sx * v.zoom * pt[1] + v.pan[1], v.sy * v.zoom * pt[2] + v.pan[2]>>

\* a memo whose second flag repeats the first
computeFlipped_copied(v) ==
  LET o == dataToHtml(v, <<0, 0>>)
      d == dataToHtml(v, <<1, 1>>)
  IN <<d[1] - o[1] < 0, d[1] - o[1] < 0>>

\* the computation memoised as isFlipped
computeFlipped(v) ==
  LET o == dataToHtml(v, <<0, 0>>)
      d == dataToHtml(v, <<1, 1>>)
  IN <<d[1] - o[1] < 0, d[2] - o[2] < 0>>

InitSel ==
  /\ view = InitView
  /\ isFlipped = computeFlipped(InitView)
  /\ selectionType = "rectangle"
  /\ counters = [t \in SelectionTypes |-> 0]
  /\ selections = <<>>
  /\ gesture = NoGesture
  /\ shapeColour = ""
  /\ ended = NoneEnded

\* the parent renders the component with another selectionType
SetSelectionType(t) ==
  /\ selectionType # t
  /\ selectionType' = t
  /\ UNCHANGED <<counters, selections, gesture, shapeColour, ended>>
  /\ UNCHANGED <<view, isFlipped>>
  /\ UNCHANGED <<plotVars, domVars>>

PointerDown(p) ==
  /\ ~gesture.drawing
  /\ Len(selections) < MaxCommits
  /\ gesture' = [drawing |-> TRUE, html |-> <<p, p>>]
  /\ shapeColour' = RenderColour(validate(gesture'.html))
  /\ UNCHANGED <<selectionType, counters, selections, ended>>
  /\ UNCHANGED <<view, isFlipped>>
  /\ UNCHANGED <<plotVars, domVars>>

PointerMove(p) ==
  /\ gesture.drawing
  /\ gesture.html[2] # p
  /\ gesture' = [gesture EXCEPT !.html[2] = p]
  /\ shapeColour' = RenderColour(validate(gesture'.html))
  /\ UNCHANGED <<selectionType, counters, selections, ended>>
  /\ UNCHANGED <<view, isFlipped>>
  /\ UNCHANGED <<plotVars, domVars>>

\* an updateCounters that increments every kind
updateCounters_all(t) == counters' = [k \in SelectionTypes |-> counters[k] + 1]

\* an updateCounters that loses its increment
updateCounters_none(t) == UNCHANGED counters

updateCounters(t) == counters' = [counters EXCEPT ![t] = @ + 1]

\* pointsToSelection: the region of kind t numbered count; it calls setCount
\* for that kind once
pointsToSelection(t, colour, count) ==
  [kind |-> t, count |-> count, colour |-> colour]

onValidSelection ==
  /\ selections' = Append(selections,
                          pointsToSelection(selectionType, "blue",
                                            counters[selectionType]))
  /\ updateCounters(selectionType)

PointerUp ==
  /\ gesture.drawing
  /\ IF validate(gesture.html)
     THEN onValidSelection
     ELSE UNCHANGED <<selections, counters>>
  /\ gesture' = NoGesture
  /\ shapeColour' = ""
  /\ ended' = [done |-> TRUE, width |-> BoxSize(gesture.html).width,
               height |-> BoxSize(gesture.html).height]
  /\ UNCHANGED selectionType
  /\ UNCHANGED <<view, isFlipped>>
  /\ UNCHANGED <<plotVars, domVars>>

\* the user pans: the camera object is moved in place, so neither dependency
\* of the memo changes and the component is not rendered again
Pan(pan) ==
  /\ view.pan # pan
  /\ view' = [view EXCEPT !.pan = pan]
  /\ UNCHANGED isFlipped
  /\ UNCHANGED <<selectionType, counters, selections, gesture, shapeColour, ended>>
  /\ UNCHANGED <<plotVars, domVars>>

\* the user zooms: the scale of the camera object is set in place
Zoom(zoom) ==
  /\ view.zoom # zoom
  /\ view' = [view EXCEPT !.zoom = zoom]
  /\ UNCHANGED isFlipped
  /\ UNCHANGED <<selectionType, counters, selections, gesture, shapeColour, ended>>
  /\ UNCHANGED <<plotVars, domVars>>

\* the direction of an axis changes: the context provides a new dataToHtml,
\* the component is rendered again and the memo recomputed
FlipAxes(sx, sy) ==
  /\ <<view.sx, view.sy>> # <<sx, sy>>
  /\ view' = [view EXCEPT !.sx = sx, !.sy = sy]
  /\ isFlipped' = computeFlipped(view')
  /\ UNCHANGED <<selectionType, counters, selections, gesture, shapeColour, ended>>
  /\ UNCHANGED <<plotVars, domVars>>

\* ------------------------------------------------------------------------
\* The domain functions on their own
\* ------------------------------------------------------------------------
DomPoints == {<<-1, 2>>, <<2, 0>>}

\* the series of at most MaxSamples samples among DomPoints
DomSeries ==
  {LineData("k", [i \in 1..Len(s) |-> s[i][1]], [i \in 1..Len(s) |-> s[i][2]]) :
     s \in SeqsUpTo(DomPoints, MaxSamples)}

DomInputs == SeqsUpTo(DomSeries, MaxDomSeries) \ {<<>>}

CalcDomain ==
  /\ domIn # <<>>
  /\ domOut = <<>>
  /\ domOut' = <<calculateMultiXDomain(domIn), calculateMultiYDomain(domIn)>>
  /\ UNCHANGED domIn
  /\ UNCHANGED <<plotVars, selVars>>

\* ------------------------------------------------------------------------
\* Specifications
\* ------------------------------------------------------------------------
Init ==
  /\ InitPlot
  /\ InitSel
  /\ domIn = <<>>
  /\ domOut = <<>>

\* the transport: socket lifecycle, add-line requests, one message per kind
Next ==
  \/ componentDidMount
  \/ SocketOpen
  \/ SocketClose
  \/ handleAddLine
  \/ \E message \in FlowMsgs : Len(log) < MaxMsgs /\ onmessage(message)
  \/ FlushState

Spec == Init /\ [][Next]_vars

\* the plot state: every message over the series A, B, C and E
NextStore ==
  \/ componentDidMount
  \/ SocketOpen
  \/ \E message \in StoreMsgs : Len(log) < MaxStoreMsgs /\ onmessage(message)
  \/ FlushState

SpecStore == Init /\ [][NextStore]_vars

\* the selection gestures
NextSel ==
  \/ \E t \in PropKinds : SetSelectionType(t)
  \/ \E p \in Points : PointerDown(p)
  \/ \E p \in Points : PointerMove(p)
  \/ PointerUp

SpecSel == Init /\ [][NextSel]_vars

\* the transform under the gestures: pan, zoom and axis direction
ViewPoints == {<<0, 0>>, <<45, 45>>}

NextView ==
  \/ \E pan \in Pans : Pan(pan)
  \/ \E zoom \in Zooms : Zoom(zoom)
  \/ \E sx \in {-1, 1}, sy \in {-1, 1} : FlipAxes(sx, sy)
  \/ \E p \in ViewPoints : PointerDown(p)
  \/ \E p \in ViewPoints : PointerMove(p)
  \/ PointerUp

SpecView == Init /\ [][NextView]_vars

\* the domain functions applied to every collection of DomInputs
InitDomain ==
  /\ InitPlot
  /\ InitSel
  /\ domIn \in DomInputs
  /\ domOut = <<>>

NextDomain == CalcDomain

SpecDomain == InitDomain /\ [][NextDomain]_vars

\* ------------------------------------------------------------------------
\* Properties
\* ------------------------------------------------------------------------
\* the number of messages m on the wire
RECURSIVE Count(_, _)
Count(w, m) ==
  IF w = <<>> THEN 0
  ELSE (IF Head(w) = m THEN 1 ELSE 0) + Count(Tail(w), m)

IsData(entry) == entry.msg.type \in DataTypes

\* C1: every inbound data message ("multiline data", "new line data",
\* "clear plots") handled by socket.onmessage is applied and answered by
\* exactly one ready status message sent by its handler, so that the ready
\* messages on the wire are the one of the open event and one per data
\* message; this for every payload, the empty series list included.
C1_FlowControl ==
  /\ \A i \in 1..Len(log) :
       IsData(log[i]) => log[i].acks = 1 /\ ~log[i].threw
  /\ Count(wire, ReadyMsg) =
       (IF opened THEN 1 ELSE 0) + Cardinality({i \in 1..Len(log) : IsData(log[i])})

\* C2: a message whose type tag is not a recognised one is dropped: the
\* step that handles it leaves the collection, the queued updates, both
\* domains and the wire as they were, and the socket stays open.
C2_UnknownDropped ==
  [][(Len(log') = Len(log) + 1 /\ ~IsData(Last(log')))
       => /\ UNCHANGED <<heap, stateRef, pending>>
          /\ UNCHANGED <<multilineXDomain, multilineYDomain>>
          /\ wire' = wire
          /\ readyState' = OPEN]_vars

\* an unknown message was dropped and a later data message was handled and
\* acknowledged
C2_Witness ==
  \E i, j \in 1..Len(log) :
    /\ i < j
    /\ ~IsData(log[i]) /\ log[i].acks = 0
    /\ IsData(log[j]) /\ log[j].acks = 1
    /\ Count(wire, ReadyMsg) = 2

\* C3: the step that takes the socket to the open state sends exactly one
\* ready status message {plot_id, type 0, params {status: "ready"}}, first,
\* and no inbound message has been handled by then.
C3_ReadyOnOpen ==
  [][(readyState = CONNECTING /\ readyState' = OPEN)
       => /\ log = <<>>
          /\ Len(wire') > Len(wire)
          /\ wire'[Len(wire) + 1] =
               [plot_id |-> "plot_0", type |-> 0, params |-> [status |-> "ready"]]
          /\ Count(wire', ReadyMsg) = Count(wire, ReadyMsg) + 1]_vars

\* the socket is open, and the ready status is the only message sent so far
C3_Witness ==
  /\ readyState = OPEN
  /\ log = <<>>
  /\ wire = <<ReadyMsg>>

\* C4: an add-line request made while the socket is connecting sends nothing
\* as long as the socket has not opened and has exactly one message
\* {plot_id, type 1, params {line_id: String(id)}} on the wire once it has;
\* a request made while the socket is open sends that message in its own
\* step.
C4_AddLineOnce ==
  /\ [](\A i \in 1..Len(requests) :
         LET r == requests[i]
             n == Count(wire, [plot_id |-> "plot_0", type |-> 1,
                               params |-> [line_id |-> ToString(r.id)]])
         IN /\ r.at = CONNECTING => n = (IF opened THEN 1 ELSE 0)
            /\ r.at = OPEN => n = 1)
  /\ [][lineID' # lineID
          => IF readyState = OPEN
             THEN wire' = Append(wire, AddLineMsg(lineID'))
             ELSE wire' = wire]_vars
  /\ [][(readyState = CONNECTING /\ readyState' = OPEN)
          => \A i \in 1..Len(openListeners) :
               Count(wire', AddLineMsg(openListeners[i])) = 1]_vars

\* one request was made before the socket opened and one while it was open;
\* each has its message on the wire, after the ready status
C4_Witness ==
  /\ Len(requests) = 2
  /\ requests[1].at = CONNECTING
  /\ requests[2].at = OPEN
  /\ wire = <<ReadyMsg, AddLineMsg(4), AddLineMsg(5)>>

\* the samples of one axis in a collection
XSamples(data) == UNION {{data[i].x[k] : k \in 1..Len(data[i].x)} : i \in 1..Len(data)}
YSamples(data) == UNION {{data[i].y[k] : k \in 1..Len(data[i].y)} : i \in 1..Len(data)}
SetMin(S) == CHOOSE m \in S : \A e \in S : m <= e
SetMax(S) == CHOOSE m \in S : \A e \in S : m >= e

RECURSIVE Installed(_)
\* the collection installed by the messages of a log: replaced by each
\* multiline message that was applied, extended by each new line, emptied by
\* each clear
Installed(l) ==
  IF l = <<>> THEN <<>>
  ELSE LET e == Last(l)
           before == Installed(SubSeq(l, 1, Len(l) - 1))
       IN CASE e.msg.type = "multiline data" /\ ~e.threw -> e.msg.data
            [] e.msg.type = "new line data" -> Append(before, e.msg.line)
            [] e.msg.type = "clear plots" -> <<>>
            [] OTHER -> before

\* C6: once a "new line data" message carrying S has been handled, the
\* collection requested for the component state is the collection installed
\* by the preceding messages followed by S, and both domains are recomputed
\* over all of it; also when the preceding replace or clear has not been
\* applied to the component state yet.
C6_AppendSeries ==
  (log # <<>> /\ Last(log).msg.type = "new line data")
    => LET before == Installed(SubSeq(log, 1, Len(log) - 1))
           after == Append(before, Last(log).msg.line)
       IN /\ Requested = after
          /\ multilineXDomain = calculateMultiXDomain(after)
          /\ multilineYDomain = calculateMultiYDomain(after)

\* C7: once a "clear plots" message has been handled, the collection
\* requested for the component state is empty and both domains are [0,1];
\* handling a second clear right after leaves the requested collection and
\* the domains as they were.
C7_Clear ==
  /\ []((log # <<>> /\ Last(log).msg.type = "clear plots")
          => /\ Requested = <<>>
             /\ pending = <<>> => Collection = <<>>
             /\ multilineXDomain = <<Num(0), Num(1)>>
             /\ multilineYDomain = <<Num(0), Num(1)>>)
  /\ [][(/\ log # <<>>
         /\ Last(log).msg.type = "clear plots"
         /\ Len(log') = Len(log) + 1
         /\ Last(log').msg.type = "clear plots")
          => /\ Requested' = Requested
             /\ UNCHANGED <<multilineXDomain, multilineYDomain>>]_vars

\* a collection holding the series A, B was cleared twice
C7_Witness ==
  /\ Len(log) = 3
  /\ log[1].msg = MultiDataMessage(<<SeriesA, SeriesB>>)
  /\ log[2].msg = ClearPlotsMessage
  /\ log[3].msg = ClearPlotsMessage
  /\ pending = <<>>
  /\ Collection = <<>>
  /\ multilineXDomain = <<Num(0), Num(1)>>

\* [min, max] is ordered, attained by samples of S and encloses them all
EnclosesAttained(dom, S) ==
  /\ Lte(dom[1], dom[2])
  /\ dom[1].t = "num" /\ dom[1].v \in S
  /\ dom[2].t = "num" /\ dom[2].v \in S
  /\ \A e \in S : dom[1].v <= e /\ e <= dom[2].v

\* C8: for a non-empty collection that holds a sample, whatever the lengths
\* of its series (a series without samples included), calculateMultiXDomain
\* and calculateMultiYDomain return [min, max] with min <= max, min and max
\* values of samples of that axis, and every sample of that axis within.
C8_DomainResult ==
  (domOut # <<>> /\ XSamples(domIn) # {})
    => /\ EnclosesAttained(domOut[1], XSamples(domIn))
       /\ EnclosesAttained(domOut[2], YSamples(domIn))

\* C9: whenever the collection is empty both domains are [0,1], and in
\* every state each domain has min <= max.
C9_EmptyDefault ==
  /\ Collection = <<>>
       => multilineXDomain = DefaultDomain /\ multilineYDomain = DefaultDomain
  /\ Lte(multilineXDomain[1], multilineXDomain[2])
  /\ Lte(multilineYDomain[1], multilineYDomain[2])

GestureSize == BoxSize(gesture.html)

C11_ValidCommittedOnce ==
  /\ [][(/\ gesture.drawing
         /\ ~gesture'.drawing
         /\ GestureSize.width >= 20
         /\ GestureSize.height >= 20)
          => /\ Len(selections') = Len(selections) + 1
             /\ SubSeq(selections', 1, Len(selections)) = selections
             /\ Last(selections').kind = selectionType
             /\ counters' = [counters EXCEPT ![selectionType] = @ + 1]]_vars
  /\ [][counters' # counters
          => /\ gesture.drawing
             /\ ~gesture'.drawing
             /\ Len(selections') = Len(selections) + 1
             /\ \A k \in SelectionTypes : counters'[k] >= counters[k]]_vars

\* a gesture of 45 x 45 has ended and its sector is the only region
C11_Witness ==
  /\ ended = [done |-> TRUE, width |-> 45, height |-> 45]
  /\ Len(selections) = 1
  /\ selections[1].kind = "sector"
  /\ counters = [k \in SelectionTypes |-> IF k = "sector" THEN 1 ELSE 0]

\* C12: in every state the keys of the series in the collection are
\* pairwise distinct.
C12_KeysDistinct ==
  \A i, j \in 1..Len(Collection) :
    i # j => Collection[i].key # Collection[j].key

\* C13: the domain recomputation never runs on an empty collection: no
\* handler ends in its TypeError, and a "multiline data" message with an
\* empty series list leaves both domains at the default [0,1].
C13_NeverEmptyRecompute ==
  /\ \A i \in 1..Len(log) : ~log[i].threw
  /\ (log # <<>> /\ Last(log).msg = MultiDataMessage(<<>>))
       => /\ multilineXDomain = DefaultDomain
          /\ multilineYDomain = DefaultDomain
          /\ Requested = <<>>

\* C14: once the socket has reached the open state no sendNewLineRequest
\* is left waiting, whatever the state of the socket when it is called.
C14_NoSuspendAfterOpen == opened => openListeners = <<>>

\* the statement of C15 as first made: at most one open listener is
\* registered and pending
C15_Original == Len(openListeners) <= 1

\* the ids of the requests made while the socket was not open and whose
\* message is not on the wire, in the order of the requests
RECURSIVE WaitingIds(_)
WaitingIds(reqs) ==
  IF reqs = <<>> THEN <<>>
  ELSE LET r == Last(reqs)
           before == WaitingIds(SubSeq(reqs, 1, Len(reqs) - 1))
       IN IF r.at # OPEN /\ Count(wire, AddLineMsg(r.id)) = 0
          THEN Append(before, r.id)
          ELSE before

\* C15: every add-line request made while the socket is not open has
\* exactly one open listener registered and pending until it is resumed: the
\* pending listeners are those of the waiting requests, one each, in the
\* order of the requests.
C15_OnePerRequest == openListeners = WaitingIds(requests)

\* two requests wait for a socket that is still connecting
C15_Witness ==
  /\ readyState = CONNECTING
  /\ openListeners = <<4, 5>>

\* C16: what a render passed to the Plot is consistent and stable: the
\* domains are the recomputation over the rendered collection, or [0,1]
\* when it is empty, and the array it received still has the content it had
\* at that render.
C16_StableSnapshot ==
  rendered.done
    => /\ IF rendered.data = <<>>
          THEN rendered.xDomain = DefaultDomain /\ rendered.yDomain = DefaultDomain
          ELSE /\ rendered.xDomain = calculateMultiXDomain(rendered.data)
               /\ rendered.yDomain = calculateMultiYDomain(rendered.data)
       /\ heap[rendered.ref] = rendered.data

C18_SendOnlyWhenOpen ==
  /\ [][wire' # wire => readyState' = OPEN]_vars
  /\ [](wire # <<>> => wire[1] = ReadyMsg)
  /\ [](readyState = CONNECTING => wire = <<>>)
  /\ [](\A i \in 1..Len(wire) :
          wire[i].type = 1 => \E j \in 1..(i - 1) : wire[j] = ReadyMsg)

\* a request made before the socket opened was sent after the ready status
C18_Witness ==
  /\ Len(requests) = 1
  /\ requests[1].at = CONNECTING
  /\ wire = <<ReadyMsg, AddLineMsg(4)>>

\* the add-line messages of a wire, in their order
RECURSIVE AddLines(_)
AddLines(w) ==
  IF w = <<>> THEN <<>>
  ELSE IF Head(w).type = 1 THEN <<Head(w)>> \o AddLines(Tail(w))
       ELSE AddLines(Tail(w))

RECURSIVE SentIds(_)
\* the ids up to n whose add-line message is on the wire, in increasing order
SentIds(n) ==
  IF n <= 3 THEN <<>>
  ELSE IF Count(wire, AddLineMsg(n)) > 0 THEN Append(SentIds(n - 1), n)
       ELSE SentIds(n - 1)

\* C19: the i-th add-line request has the id 3 + i (the first is "4"), and
\* the add-line messages on the wire are one per sent id, in strictly
\* increasing order of id.
C19_FreshIncreasingIds ==
  /\ lineID = 3 + Len(requests)
  /\ \A i \in 1..Len(requests) : requests[i].id = 3 + i
  /\ requests # <<>> => AddLineMsg(requests[1].id).params.line_id = "4"
  /\ AddLines(wire) = [i \in 1..Len(SentIds(lineID)) |-> AddLineMsg(SentIds(lineID)[i])]

\* two requests queued before the socket opened were sent in their order
C19_Witness ==
  /\ Len(requests) = 2
  /\ requests[1].at = CONNECTING
  /\ requests[2].at = CONNECTING
  /\ AddLines(wire) = <<AddLineMsg(4), AddLineMsg(5)>>

\* C20: the counter value of a committed region equals the number of
\* earlier commits of its kind, so no two regions share kind and counter.
C20_UniqueIds ==
  /\ \A i \in 1..Len(selections) :
       selections[i].count =
         Cardinality({j \in 1..(i - 1) : selections[j].kind = selections[i].kind})
  /\ \A i, j \in 1..Len(selections) :
       i # j => <<selections[i].kind, selections[i].count>>
                  # <<selections[j].kind, selections[j].count>>

\* two rectangles were committed, then the kind changed and a gesture of
\* 19 x 19 was drawn
C20_Witness ==
  /\ Len(selections) = 2
  /\ selections[1] = [kind |-> "rectangle", count |-> 0, colour |-> "blue"]
  /\ selections[2] = [kind |-> "rectangle", count |-> 1, colour |-> "blue"]
  /\ selectionType = "line"

====
